---- MODULE Spec2Model ----
(***************************************************************************)
(* A model of kgexpr.data (src/kgexpr/data/__init__.py): the triple store, *)
(* the sequential batch index sampler, the evaluation expanders and the    *)
(* negative-expansion stage of the training pipeline.                      *)
(*                                                                         *)
(* Each component has its own specification over the shared variables; a   *)
(* component that a specification does not exercise stays idle in it.      *)
(***************************************************************************)
EXTENDS Integers, Sequences, FiniteSets, TLC

VARIABLES
    \* TripleIndexBatchSampler
    dataset_len,    \* len(self.dataset)
    batch_size,     \* self.batch_size
    has_cursor,     \* whether __iter__ has created self.cursor / self.max_item
    cursor,         \* self.cursor (meaningful only when has_cursor)
    max_item,       \* self.max_item (meaningful only when has_cursor)
    batch,          \* the array the last __next__ returned
    yielded,        \* history: the chunks returned since the last __iter__
    outcome,        \* how the last call on the sampler ended
    \* expand_triple_to_sets
    triple,         \* the argument triple, <<h, r, t>>
    num_expands,    \* the argument num_expands
    arange_target,  \* the argument arange_target
    expanded,       \* what the call returned or raised
    \* TripleSource
    train_set,      \* self._train_set
    valid_set,      \* self._valid_set
    test_set,       \* self._test_set
    num_entity,     \* self._num_entity (meaningful only when built)
    num_relation,   \* self._num_relation (meaningful only when built)
    source_status,  \* how TripleSource.__init__ ended
    \* sieve_and_expand_triple
    query,          \* the arguments head, relation, tail
    sieved,         \* what the call returned or raised
    \* the negative-expansion stage of the training pipeline
    positive,       \* the sample: a triple of the training set
    corrupt_flag,   \* the corruption flag the previous stage gave the sample
    negatives,      \* the negatives produced for the sample so far
    exhausted,      \* history: per negative, whether every attempt collided
    stage           \* how far the stage is with the sample

sampler_vars == <<dataset_len, batch_size, has_cursor, cursor, max_item,
                  batch, yielded, outcome>>
expand_vars == <<triple, num_expands, arange_target, expanded>>
source_vars == <<train_set, valid_set, test_set, num_entity, num_relation,
                 source_status>>
sieve_vars == <<query, sieved>>
negative_vars == <<positive, corrupt_flag, negatives, exhausted, stage>>

vars == <<sampler_vars, expand_vars, source_vars, sieve_vars, negative_vars>>

(***************************************************************************)
(* Bounds of the model.                                                    *)
(***************************************************************************)
MaxL == 6          \* largest dataset length
MaxB == 4          \* largest batch size
MaxEntity == 1     \* largest entity id in a file
MaxRelation == 1   \* largest relation id in a file
MaxTrainLen == 1   \* most triples in the training file
MaxExpand == 3     \* largest num_expands
MaxKnown == 2      \* most training triples the negative sampler indexes
MaxAttempts == 2   \* attempts the negative sampler makes per negative

(***************************************************************************)
(* Each component at rest, for the specifications that do not use it.      *)
(***************************************************************************)
SamplerIdle ==
    /\ dataset_len = 0
    /\ batch_size = 1
    /\ has_cursor = FALSE
    /\ cursor = 0
    /\ max_item = 0
    /\ batch = <<>>
    /\ yielded = <<>>
    /\ outcome = "constructed"

ExpandIdle ==
    /\ triple = <<0, 0, 0>>
    /\ num_expands = 0
    /\ arange_target = "HEAD"
    /\ expanded = [error |-> "pending"]

SourceIdle ==
    /\ train_set = <<>>
    /\ valid_set = <<>>
    /\ test_set = <<>>
    /\ num_entity = 0
    /\ num_relation = 0
    /\ source_status = "pending"

SieveIdle ==
    /\ query = [head |-> "?", relation |-> "?", tail |-> "?"]
    /\ sieved = [error |-> "pending"]

NegativeIdle ==
    /\ positive = <<0, 0, 0>>
    /\ corrupt_flag = FALSE
    /\ negatives = <<>>
    /\ exhausted = <<>>
    /\ stage = "idle"

(***************************************************************************)
(* numpy helpers.                                                          *)
(***************************************************************************)
\* np.arange(n, dtype=np.int64): 0, 1, ..., n-1 (empty when n <= 0)
arange(n) == [i \in 1..n |-> i - 1]

\* np.tile(np.array([x]), n): n copies of x
tile(x, n) == [i \in 1..n |-> x]

(***************************************************************************)
(* TripleIndexBatchSampler                                                 *)
(***************************************************************************)

\* __len__: (len(self.dataset) + self.batch_size - 1) // self.batch_size
TripleIndexBatchSampler_len_floor == dataset_len \div batch_size
TripleIndexBatchSampler_len ==
    (dataset_len + batch_size - 1) \div batch_size

\* the test that selects the full-batch branch of __next__
HasFullBatch_greedy(c, b, m) == c + b + 1 < m
HasFullBatch(c, b, m) == c + b < m

\* the size of the last batch
LastBatchSize(c, m) == m - c

\* the end-of-sequence test of the last-batch branch
IsExhausted_strict(n) == n < 0
IsExhausted(n) == n <= 0

\* batch = np.empty((n)); for i in range(n): batch[i] = self.cursor + i
FillBatch_shifted(c, n) == [i \in 1..n |-> c + i]
FillBatch(c, n) == [i \in 1..n |-> c + i - 1]

\* __init__ stores its arguments; it checks neither of them.
SamplerInit(sizes) ==
    /\ dataset_len \in 0..MaxL
    /\ batch_size \in sizes
    /\ has_cursor = FALSE
    /\ cursor = 0
    /\ max_item = 0
    /\ batch = <<>>
    /\ yielded = <<>>
    /\ outcome = "constructed"

\* __iter__
TripleIndexBatchSampler_iter ==
    /\ has_cursor' = TRUE
    /\ cursor' = 0
    /\ max_item' = dataset_len
    /\ batch' = <<>>
    /\ yielded' = <<>>
    /\ outcome' = "iter"
    /\ UNCHANGED <<dataset_len, batch_size>>
    /\ UNCHANGED <<expand_vars, source_vars, sieve_vars, negative_vars>>

Raise(error) ==
    /\ outcome' = error
    /\ UNCHANGED <<dataset_len, batch_size, has_cursor, cursor, max_item,
                   batch, yielded>>

Return(n) ==
    /\ batch' = FillBatch(cursor, n)
    /\ yielded' = Append(yielded, FillBatch(cursor, n))
    /\ cursor' = cursor + n
    /\ outcome' = "batch"
    /\ UNCHANGED <<dataset_len, batch_size, has_cursor, max_item>>

\* __next__.  The guard on the history only stops a sampler whose
\* batch_size is 0, which otherwise returns empty chunks without end: a
\* sampler with batch_size >= 1 returns at most dataset_len <= MaxL chunks.
TripleIndexBatchSampler_next ==
    /\ Len(yielded) <= MaxL
    /\ UNCHANGED <<expand_vars, source_vars, sieve_vars, negative_vars>>
    /\ IF ~has_cursor
       THEN Raise("AttributeError")      \* self.cursor does not exist yet
       ELSE IF HasFullBatch(cursor, batch_size, max_item)
            THEN IF batch_size < 0
                 THEN Raise("ValueError")    \* np.empty of a negative size
                 ELSE Return(batch_size)
            ELSE IF IsExhausted(LastBatchSize(cursor, max_item))
                 THEN Raise("StopIteration")
                 ELSE Return(LastBatchSize(cursor, max_item))

SamplerNext ==
    \/ TripleIndexBatchSampler_iter
    \/ TripleIndexBatchSampler_next

\* A sampler with a batch size of at least 1.
Init ==
    SamplerInit(1..MaxB) /\ ExpandIdle /\ SourceIdle /\ SieveIdle /\ NegativeIdle
Spec == Init /\ [][SamplerNext]_vars

\* A sampler constructed with any batch size, invalid ones included.
InitAnyBatchSize ==
    SamplerInit((0 - 1)..MaxB) /\ ExpandIdle /\ SourceIdle /\ SieveIdle
        /\ NegativeIdle
SpecAnyBatchSize == InitAnyBatchSize /\ [][SamplerNext]_vars

(***************************************************************************)
(* expand_triple_to_sets                                                   *)
(***************************************************************************)
\* the members of constants.TripleElement
TripleElement == {"HEAD", "RELATION", "TAIL"}

Entities == 0..MaxEntity
Relations == 0..MaxRelation
Triples == Entities \X Relations \X Entities

ExpandedTo(h, r, t) == [error |-> "none", h |-> h, r |-> r, t |-> t]

\* the HEAD branch
ExpandHead_swapped(tr, n) == ExpandedTo(arange(n), tile(tr[3], n), tile(tr[2], n))
ExpandHead(tr, n) == ExpandedTo(arange(n), tile(tr[2], n), tile(tr[3], n))

\* the RELATION branch
ExpandRelation(tr, n) == ExpandedTo(tile(tr[1], n), arange(n), tile(tr[3], n))

\* the TAIL branch
ExpandTail(tr, n) == ExpandedTo(tile(tr[1], n), tile(tr[2], n), arange(n))

expand_triple_to_sets(tr, n, target) ==
    IF target \notin TripleElement
    THEN [error |-> "RuntimeError"]
    ELSE IF target = "HEAD" THEN ExpandHead(tr, n)
    ELSE IF target = "RELATION" THEN ExpandRelation(tr, n)
    ELSE IF target = "TAIL" THEN ExpandTail(tr, n)
    ELSE [error |-> "RuntimeError"]

ExpandInit ==
    /\ triple \in Triples
    /\ num_expands \in 0..MaxExpand
    /\ arange_target \in TripleElement \cup {"LABEL"}
    /\ expanded = [error |-> "pending"]

ExpandCall ==
    /\ expanded.error = "pending"
    /\ expanded' = expand_triple_to_sets(triple, num_expands, arange_target)
    /\ UNCHANGED <<triple, num_expands, arange_target>>
    /\ UNCHANGED <<sampler_vars, source_vars, sieve_vars, negative_vars>>

InitExpand ==
    SamplerIdle /\ ExpandInit /\ SourceIdle /\ SieveIdle /\ NegativeIdle
SpecExpand == InitExpand /\ [][ExpandCall]_vars

(***************************************************************************)
(* TripleSource                                                            *)
(***************************************************************************)
\* the sequences over S of at most n elements
RECURSIVE ListsOf(_, _)
ListsOf(S, n) ==
    IF n = 0 THEN {<<>>}
    ELSE LET shorter == ListsOf(S, n - 1)
         IN  shorter \cup {Append(l, x) : l \in shorter, x \in S}

\* the key functions head_compare, relation_compare and tail_compare
head_compare(x) == x[1]
relation_compare(x) == x[2]
tail_compare(x) == x[3]

key_of(compare, x) ==
    IF compare = "head_compare" THEN head_compare(x)
    ELSE IF compare = "relation_compare" THEN relation_compare(x)
    ELSE tail_compare(x)

\* max(values, key=compare) of a non-empty list: its first element of
\* greatest key
max_key(values, compare) ==
    values[CHOOSE i \in 1..Len(values) :
               /\ \A j \in 1..Len(values) :
                      key_of(compare, values[j]) <= key_of(compare, values[i])
               /\ \A j \in 1..(i - 1) :
                      key_of(compare, values[j]) < key_of(compare, values[i])]

\* max(a, b) of two integers
max2(a, b) == IF a >= b THEN a ELSE b

\* max([max(triple_set, key=compare)
\*      for triple_set in [train, valid, test]], key=compare)
max_of_sets(compare) ==
    max_key(<<max_key(train_set, compare), max_key(valid_set, compare),
              max_key(test_set, compare)>>, compare)

\* self._num_entity
EntityCount_heads_only == head_compare(max_of_sets("head_compare")) + 1
EntityCount ==
    max2(head_compare(max_of_sets("head_compare")),
         tail_compare(max_of_sets("tail_compare"))) + 1

\* self._num_relation
RelationCount == relation_compare(max_of_sets("relation_compare")) + 1

\* The three files as kgekit.io.read_triple_indexes parsed them.  The
\* validation and test files hold at most one triple each.
SourceInit ==
    /\ train_set \in ListsOf(Triples, MaxTrainLen)
    /\ valid_set \in ListsOf(Triples, 1)
    /\ test_set \in ListsOf(Triples, 1)
    /\ num_entity = 0
    /\ num_relation = 0
    /\ source_status = "pending"

\* TripleSource.__init__: a file with lines that failed to parse fails the
\* assert on num_failed that follows its read (num_failed stands for the
\* count of whichever file fails first); max() of an empty list raises
\* ValueError.
TripleSource_init ==
    /\ source_status = "pending"
    /\ \E num_failed \in {0, 1} :
          IF num_failed # 0
          THEN /\ source_status' = "AssertionError"
               /\ UNCHANGED <<num_entity, num_relation>>
          ELSE IF train_set = <<>> \/ valid_set = <<>> \/ test_set = <<>>
          THEN /\ source_status' = "ValueError"
               /\ UNCHANGED <<num_entity, num_relation>>
          ELSE /\ source_status' = "built"
               /\ num_entity' = EntityCount
               /\ num_relation' = RelationCount
    /\ UNCHANGED <<train_set, valid_set, test_set>>
    /\ UNCHANGED <<sampler_vars, expand_vars, sieve_vars, negative_vars>>

InitSource ==
    SamplerIdle /\ ExpandIdle /\ SourceInit /\ SieveIdle /\ NegativeIdle
SpecSource == InitSource /\ [][TripleSource_init]_vars

(***************************************************************************)
(* sieve_and_expand_triple                                                 *)
(***************************************************************************)
\* The names the module binds at its top level: its imports, classes,
\* functions and constants.  sieve_and_expand_triple reads the name batch,
\* which is neither one of its parameters, nor one of these, nor a builtin.
ModuleGlobals ==
    {"os", "kgekit", "kgedata", "torch", "Dataset", "np", "random",
     "transforms", "functools", "collators", "constants", "transformers",
     "TripleSource", "TripleIndexesDataset", "get_triples_from_batch",
     "np_to_tensor", "_BatchElementConverter", "convert_triple_tuple_to_torch",
     "expand_triple_to_sets", "_SAFE_MINIMAL_BATCH_SIZE",
     "TripleIndexBatchSampler", "SEED_OFFSET", "create_dataloader",
     "sieve_and_expand_triple"}

SieveParameters ==
    {"triple_source", "entities", "relations", "head", "relation", "tail"}

\* the name-to-id tables the caller passes
entities == [name \in {"paris", "france"} |-> IF name = "paris" THEN 1 ELSE 0]
relations == [name \in {"capital_of", "in"} |-> IF name = "in" THEN 1 ELSE 0]

Sieved(h, r, t, key, index) ==
    [error |-> "none", h |-> h, r |-> r, t |-> t, prediction_type |-> key,
     triple_index |-> index]

\* the branches of the function after its first two statements; table[key]
\* raises KeyError for a key the table does not hold
SieveHead(q) ==
    IF q.relation \notin DOMAIN relations \/ q.tail \notin DOMAIN entities
    THEN [error |-> "KeyError"]
    ELSE LET r == relations[q.relation]
             t == entities[q.tail]
         IN  Sieved(arange(num_entity), tile(r, num_entity),
                    tile(t, num_entity), "HEAD_KEY", <<0 - 1, r, t>>)

SieveRelation(q) ==
    IF q.head \notin DOMAIN entities \/ q.tail \notin DOMAIN entities
    THEN [error |-> "KeyError"]
    ELSE LET h == entities[q.head]
             t == entities[q.tail]
         IN  Sieved(tile(h, num_relation), arange(num_relation),
                    tile(t, num_relation), "RELATION_KEY", <<h, 0 - 1, t>>)

SieveTail(q) ==
    IF q.relation \notin DOMAIN relations \/ q.head \notin DOMAIN entities
    THEN [error |-> "KeyError"]
    ELSE LET r == relations[q.relation]
             h == entities[q.head]
         IN  Sieved(tile(h, num_entity), tile(r, num_entity),
                    arange(num_entity), "TAIL_KEY", <<h, r, 0 - 1>>)

sieve_and_expand_triple(q) ==
    IF "batch" \notin SieveParameters \cup ModuleGlobals
    THEN [error |-> "NameError"]        \* batch.shape, the first statement
    ELSE IF q.head = "?" THEN SieveHead(q)
    ELSE IF q.relation = "?" THEN SieveRelation(q)
    ELSE IF q.tail = "?" THEN SieveTail(q)
    ELSE [error |-> "RuntimeError"]     \* head, relation, tail are known

\* A query over the tables' names and "?", against a source built from
\* three files that hold the same single triple.
SieveInit ==
    /\ query \in [head : DOMAIN entities \cup {"?"},
                  relation : DOMAIN relations \cup {"?"},
                  tail : DOMAIN entities \cup {"?"}]
    /\ sieved = [error |-> "pending"]
    /\ train_set \in {<<x>> : x \in Triples}
    /\ valid_set = train_set
    /\ test_set = train_set
    /\ num_entity = EntityCount
    /\ num_relation = RelationCount
    /\ source_status = "built"

SieveCall ==
    /\ sieved.error = "pending"
    /\ sieved' = sieve_and_expand_triple(query)
    /\ UNCHANGED query
    /\ UNCHANGED <<sampler_vars, expand_vars, source_vars, negative_vars>>

InitSieve == SamplerIdle /\ ExpandIdle /\ SieveInit /\ NegativeIdle
SpecSieve == InitSieve /\ [][SieveCall]_vars

(***************************************************************************)
(* The negative-expansion stage of create_dataloader's training pipeline:  *)
(* collators.LCWANoThrowCollate over kgedata.LCWANoThrowSampler.  Both are *)
(* defined outside kgexpr/data/__init__.py; the stage follows the          *)
(* specified behaviour of the sampler (draw, check against the known true  *)
(* triples, retry a fixed number of times, accept the last candidate) and  *)
(* the recorded run of test_lcwa_no_throw_collate.                         *)
(***************************************************************************)
\* Config.negative_entity, Config.negative_relation
negative_entity == 1
negative_relation == 1

\* The side a corruption flag selects.  In the recorded run the sample
\* (0, 0, 1) with flag True gets the entity negative (0, 0, 3) and the sample
\* (1, 1, 2) with flag False gets (0, 1, 2).
CorruptedSide_swapped(flag) == IF flag THEN "HEAD" ELSE "TAIL"
CorruptedSide(flag) == IF flag THEN "TAIL" ELSE "HEAD"

\* the triple with one field replaced
Replace(tr, side, id) ==
    IF side = "HEAD" THEN <<id, tr[2], tr[3]>>
    ELSE IF side = "RELATION" THEN <<tr[1], id, tr[3]>>
    ELSE <<tr[1], tr[2], id>>

\* the known-true-triple index, built from the training set
KnownTrue == {train_set[i] : i \in 1..Len(train_set)}

\* One negative from the candidates drawn for the attempts, in order: the
\* first draw whose triple is not a known true triple, or else the last one.
SampleNegative(tr, side, draws) ==
    LET free == {i \in 1..MaxAttempts : Replace(tr, side, draws[i]) \notin KnownTrue}
        pick == IF free = {} THEN MaxAttempts
                ELSE CHOOSE i \in free : \A j \in free : i <= j
    IN  [triple |-> Replace(tr, side, draws[pick]), exhausted |-> free = {}]

\* A sample of the training dataset (TripleIndexesDataset.__getitem__ over
\* triple_source.train_set) with the flag the corruption stage gave it; the
\* validation and test files hold the triple of the largest ids.
NegativeInit ==
    /\ train_set \in ListsOf(Triples, MaxKnown) \ {<<>>}
    /\ valid_set = << <<MaxEntity, MaxRelation, MaxEntity>> >>
    /\ test_set = valid_set
    /\ num_entity = EntityCount
    /\ num_relation = RelationCount
    /\ source_status = "built"
    /\ positive \in KnownTrue
    /\ corrupt_flag \in BOOLEAN
    /\ negatives = <<>>
    /\ exhausted = <<>>
    /\ stage = "tagged"

Emit(sampled, next_stage) ==
    /\ negatives' = negatives \o [i \in DOMAIN sampled |-> sampled[i].triple]
    /\ exhausted' = exhausted \o [i \in DOMAIN sampled |-> sampled[i].exhausted]
    /\ stage' = next_stage
    /\ UNCHANGED <<positive, corrupt_flag>>
    /\ UNCHANGED <<sampler_vars, expand_vars, source_vars, sieve_vars>>

\* the negative_entity negatives that replace the head or the tail
SampleEntityNegatives ==
    /\ stage = "tagged"
    /\ \E draws \in [1..negative_entity ->
                        [1..MaxAttempts -> 0..(num_entity - 1)]] :
          Emit([i \in 1..negative_entity |->
                    SampleNegative(positive, CorruptedSide(corrupt_flag),
                                   draws[i])],
               "entities")

\* the negative_relation negatives that replace the relation
SampleRelationNegatives ==
    /\ stage = "entities"
    /\ \E draws \in [1..negative_relation ->
                        [1..MaxAttempts -> 0..(num_relation - 1)]] :
          Emit([i \in 1..negative_relation |->
                    SampleNegative(positive, "RELATION", draws[i])],
               "expanded")

NegativeNext ==
    \/ SampleEntityNegatives
    \/ SampleRelationNegatives

InitNegative == SamplerIdle /\ ExpandIdle /\ SieveIdle /\ NegativeInit
SpecNegative == InitNegative /\ [][NegativeNext]_vars

(***************************************************************************)
(* Properties of TripleIndexBatchSampler                                   *)
(***************************************************************************)
RECURSIVE Flatten(_)
Flatten(chunks) ==
    IF chunks = <<>> THEN <<>> ELSE Head(chunks) \o Flatten(Tail(chunks))

\* ceil(a / b) for a >= 0, b >= 1, by its defining inequalities
CeilDiv(a, b) == CHOOSE q \in 0..a : (q - 1) * b < a /\ a <= q * b

\* C1: the chunks returned since __iter__ concatenate to 0, 1, ..., cursor-1
\* at every moment, and to exactly 0, 1, ..., L-1 (each index once, ascending,
\* none outside [0, L)) when the sampler signals end-of-sequence.
C1_ChunksConcatenateToRange ==
    has_cursor =>
        /\ Flatten(yielded) = arange(cursor)
        /\ outcome = "StopIteration" => Flatten(yielded) = arange(dataset_len)

C1_Witness ==
    /\ outcome = "StopIteration"
    /\ dataset_len = 5
    /\ batch_size = 2
    /\ yielded = << <<0, 1>>, <<2, 3>>, <<4>> >>

\* C2: when the sampler signals end-of-sequence it has returned ceil(L/B)
\* chunks, which is also what __len__ reports.
C2_ChunkCountIsCeilAndLen ==
    (has_cursor /\ outcome = "StopIteration") =>
        /\ Len(yielded) = CeilDiv(dataset_len, batch_size)
        /\ Len(yielded) = TripleIndexBatchSampler_len

C2_Witness ==
    /\ outcome = "StopIteration"
    /\ dataset_len = 5
    /\ batch_size = 3
    /\ Len(yielded) = 2
    /\ TripleIndexBatchSampler_len = 2

\* C9: no returned chunk is empty or longer than B; every chunk before the
\* most recent one has exactly B indices; at end-of-sequence (L >= 1) the
\* last chunk has L mod B indices, or B when B divides L.
C9_ChunkLengths ==
    (has_cursor /\ dataset_len >= 1) =>
        /\ \A i \in 1..Len(yielded) :
               /\ Len(yielded[i]) >= 1
               /\ Len(yielded[i]) <= batch_size
               /\ i < Len(yielded) => Len(yielded[i]) = batch_size
        /\ outcome = "StopIteration" =>
               /\ Len(yielded) >= 1
               /\ Len(yielded[Len(yielded)]) =
                      IF dataset_len % batch_size = 0
                      THEN batch_size
                      ELSE dataset_len % batch_size

C9_Witness ==
    /\ outcome = "StopIteration"
    /\ dataset_len = 6
    /\ batch_size = 4
    /\ Len(yielded) = 2
    /\ Len(yielded[2]) = 2

C9_WitnessDivides ==
    /\ outcome = "StopIteration"
    /\ dataset_len = 6
    /\ batch_size = 3
    /\ Len(yielded[2]) = 3

\* C10: the cursor stays within [0, L]; a next() on an exhausted cursor
\* signals end-of-sequence and changes neither the cursor nor what was
\* returned; the cursor only goes back through __iter__, which puts it at 0
\* with nothing returned yet.
CursorInRange == has_cursor => (0 <= cursor /\ cursor <= dataset_len)

ExhaustedStays ==
    (has_cursor /\ cursor = dataset_len /\ outcome' # "iter") =>
        (outcome' = "StopIteration" /\ cursor' = cursor /\ yielded' = yielded)

OnlyIterRewinds ==
    (has_cursor /\ (cursor' < cursor \/ Len(yielded') < Len(yielded))) =>
        (outcome' = "iter" /\ cursor' = 0 /\ yielded' = <<>>)

C10_CursorBoundedAndExhaustionSticky ==
    /\ []CursorInRange
    /\ [][ExhaustedStays /\ OnlyIterRewinds]_vars

C10_Witness ==
    /\ outcome = "StopIteration"
    /\ has_cursor
    /\ cursor = dataset_len
    /\ dataset_len = 4
    /\ batch_size = 3

\* C8: a sampler whose batch size is not positive never returns a chunk (it
\* is rejected when it is constructed).
C8_InvalidBatchSizeProducesNothing ==
    batch_size <= 0 => (outcome # "batch" /\ yielded = <<>>)

(***************************************************************************)
(* Properties of expand_triple_to_sets                                     *)
(***************************************************************************)
IsConstant(a, n, x) == Len(a) = n /\ \A i \in 1..n : a[i] = x
IsRange(a, n) == Len(a) = n /\ \A i \in 1..n : a[i] = i - 1

\* C3: with a target in {HEAD, RELATION, TAIL} the call returns three arrays
\* of length N; the target's array is 0, 1, ..., N-1 and the other two are
\* constant, each equal to its own field of the input triple.
C3_ExpandTilesAroundTarget ==
    (expanded.error # "pending" /\ arange_target \in TripleElement) =>
        /\ expanded.error = "none"
        /\ IF arange_target = "HEAD"
           THEN IsRange(expanded.h, num_expands)
           ELSE IsConstant(expanded.h, num_expands, triple[1])
        /\ IF arange_target = "RELATION"
           THEN IsRange(expanded.r, num_expands)
           ELSE IsConstant(expanded.r, num_expands, triple[2])
        /\ IF arange_target = "TAIL"
           THEN IsRange(expanded.t, num_expands)
           ELSE IsConstant(expanded.t, num_expands, triple[3])

C3_Witness ==
    /\ triple = <<1, 0, 1>>
    /\ num_expands = 3
    /\ arange_target = "HEAD"
    /\ expanded = [error |-> "none", h |-> <<0, 1, 2>>, r |-> <<0, 0, 0>>,
                   t |-> <<1, 1, 1>>]

(***************************************************************************)
(* Properties of TripleSource                                              *)
(***************************************************************************)
SeqRange(l) == {l[i] : i \in 1..Len(l)}
AllTriples == SeqRange(train_set) \cup SeqRange(valid_set) \cup SeqRange(test_set)
SetMax(S) == CHOOSE x \in S : \A y \in S : y <= x

\* C4: a TripleSource built from three non-empty sets has num_entity = 1 + the
\* greatest head or tail id and num_relation = 1 + the greatest relation id of
\* the union of the sets, so every stored id is below its vocabulary size.
C4_VocabularySizes ==
    source_status = "built" =>
        /\ train_set # <<>> /\ valid_set # <<>> /\ test_set # <<>>
        /\ num_entity =
               1 + SetMax({x[1] : x \in AllTriples} \cup {x[3] : x \in AllTriples})
        /\ num_relation = 1 + SetMax({x[2] : x \in AllTriples})
        /\ \A x \in AllTriples :
               /\ 0 <= x[1] /\ x[1] < num_entity
               /\ 0 <= x[2] /\ x[2] < num_relation
               /\ 0 <= x[3] /\ x[3] < num_entity

C4_Witness ==
    /\ source_status = "built"
    /\ train_set = << <<0, 0, 0>> >>
    /\ valid_set = << <<0, 1, 0>> >>
    /\ test_set = << <<0, 0, 1>> >>
    /\ num_entity = 2
    /\ num_relation = 2

(***************************************************************************)
(* Properties of sieve_and_expand_triple                                   *)
(***************************************************************************)
Unknowns(q) ==
    (IF q.head = "?" THEN 1 ELSE 0) + (IF q.relation = "?" THEN 1 ELSE 0)
        + (IF q.tail = "?" THEN 1 ELSE 0)

\* what the query builder is to return for a query with exactly one "?"
SieveAnswer(q) ==
    IF q.head = "?" THEN SieveHead(q)
    ELSE IF q.relation = "?" THEN SieveRelation(q)
    ELSE SieveTail(q)

\* C5: a query with exactly one "?" succeeds, returning the unknown field as
\* 0..V-1, the two known fields resolved through the tables and tiled to
\* length V, the tag of the queried field, and a TripleIndex with -1 at the
\* unknown position.
C5_SingleUnknownIsAnswered ==
    (sieved.error # "pending" /\ Unknowns(query) = 1) =>
        /\ sieved.error = "none"
        /\ sieved = SieveAnswer(query)

\* C6: a query with no "?" or with more than one is rejected with the
\* ambiguous-query error (the RuntimeError of the function's last branch).
C6_AmbiguousQueryIsRejected ==
    (sieved.error # "pending" /\ Unknowns(query) # 1) =>
        sieved.error = "RuntimeError"

(***************************************************************************)
(* Properties of the negative-expansion stage                              *)
(***************************************************************************)
\* the fields in which two triples differ
Differing(a, b) == {k \in 1..3 : a[k] # b[k]}

FieldOf(side) == IF side = "HEAD" THEN 1 ELSE IF side = "RELATION" THEN 2 ELSE 3

\* the field negative i replaces: entity negatives come first
CorruptedField(i) ==
    IF i <= negative_entity
    THEN FieldOf(IF corrupt_flag THEN "TAIL" ELSE "HEAD")
    ELSE FieldOf("RELATION")

====
